---- MODULE Spec2Model ----
(***************************************************************************)
(* Roadways Ledger backend (src/server.js): the /api/bilty route handlers  *)
(* over the bilty_data table, and the parseNumeric helper.                 *)
(*                                                                         *)
(* A JavaScript value is a record [kind, s, m, e]:                         *)
(*   kind = "undefined" | "null" | "string" | "number" | "infinity" | "nan"*)
(*   s    = the characters of a string, one one-character string each      *)
(*   m, e = a finite number m * 10^e, m not divisible by 10 (0 is m=0,e=0);*)
(*          for "infinity", m is the sign (1 or -1).                       *)
(* Numbers are decimal: the binary rounding of doubles is not modelled.    *)
(***************************************************************************)
EXTENDS Integers, Sequences, FiniteSets

VARIABLES rows, seq, inflight, resp, deleted, fresh, race, pnIn, pnOut

vars == <<rows, seq, inflight, resp, deleted, fresh, race, pnIn, pnOut>>

(* ------------------------------ bounds --------------------------------- *)

\* Longest string over Alphabet given to parseNumeric.
MaxLen == 3

\* Last value the id sequence of bilty_data may hand out.
MaxId == 2

(* --------------------------- JavaScript values ------------------------- *)

V(k, s, m, e) == [kind |-> k, s |-> s, m |-> m, e |-> e]

Undefined == V("undefined", <<>>, 0, 0)

Null == V("null", <<>>, 0, 0)

NaN == V("nan", <<>>, 0, 0)

Str(s) == V("string", s, 0, 0)

Inf(sign) == V("infinity", <<>>, sign, 0)

Abs(n) == IF n < 0 THEN -n ELSE n

RECURSIVE Pow10(_)
Pow10(n) == IF n <= 0 THEN 1 ELSE 10 * Pow10(n - 1)

\* The decimal digits of a natural number, most significant first.
RECURSIVE DigitsOf(_)
DigitsOf(n) ==
    IF n < 10 THEN <<n>> ELSE Append(DigitsOf(n \div 10), n % 10)

\* The number sign * mag * 10^e in normal form.
RECURSIVE Norm(_, _, _)
Norm(sign, mag, e) ==
    IF mag = 0 THEN V("number", <<>>, 0, 0)
    ELSE IF mag % 10 = 0 THEN Norm(sign, mag \div 10, e + 1)
    ELSE V("number", <<>>, sign * mag, e)

Num(m, e) == Norm(IF m < 0 THEN -1 ELSE 1, Abs(m), e)

\* The double nearest to sign * mag * 10^e: beyond the largest double
\* (1.797...e308) it is an infinity, below the smallest (4.9e-324) it is 0.
\* mag has at most four digits.
ToDouble(sign, mag, e) ==
    LET d  == Len(DigitsOf(mag))
        l4 == mag * Pow10(4 - d)
    IN  IF mag = 0 THEN Norm(sign, 0, 0)
        ELSE IF d + e > 309 \/ (d + e = 309 /\ l4 >= 1798) THEN Inf(sign)
        ELSE IF d + e < -323 THEN Norm(sign, 0, 0)
        ELSE Norm(sign, mag, e)

DigitChars == <<"0", "1", "2", "3", "4", "5", "6", "7", "8", "9">>

IsDigit(c) == \E i \in 1..10 : DigitChars[i] = c

DigitVal(c) == (CHOOSE i \in 1..10 : DigitChars[i] = c) - 1

\* StrWhiteSpaceChar, as far as the alphabet has any.
IsSpace(c) == c \in {" ", "\t", "\n"}

Drop(s, n) == SubSeq(s, n + 1, Len(s))

\* How many white space characters s begins with.
LeadSpaces(s) ==
    CHOOSE n \in 0..Len(s) :
        /\ \A i \in 1..n : IsSpace(s[i])
        /\ (n = Len(s) \/ ~IsSpace(s[n + 1]))

\* How many digits s begins with.
LeadDigits(s) ==
    CHOOSE n \in 0..Len(s) :
        /\ \A i \in 1..n : IsDigit(s[i])
        /\ (n = Len(s) \/ ~IsDigit(s[n + 1]))

\* The value of a sequence of digit characters.
RECURSIVE DigitsValue(_)
DigitsValue(ds) ==
    IF ds = <<>> THEN 0
    ELSE 10 * DigitsValue(SubSeq(ds, 1, Len(ds) - 1)) + DigitVal(ds[Len(ds)])

StartsWith(s, p) == Len(s) >= Len(p) /\ SubSeq(s, 1, Len(p)) = p

InfinityChars == <<"I", "n", "f", "i", "n", "i", "t", "y">>

\* Number::toString for the numbers written positionally (1e-6 <= |x| < 1e21).
NumberToString(v) ==
    LET digs  == [i \in 1..Len(DigitsOf(Abs(v.m))) |->
                     DigitChars[DigitsOf(Abs(v.m))[i] + 1]]
        d     == Len(digs)
        zeros(k) == [i \in 1..k |-> "0"]
        body  == IF v.e >= 0 THEN digs \o zeros(v.e)
                 ELSE IF d > -v.e
                      THEN SubSeq(digs, 1, d + v.e) \o <<".">> \o Drop(digs, d + v.e)
                      ELSE <<"0", ".">> \o zeros(-v.e - d) \o digs
    IN  IF v.m < 0 THEN <<"-">> \o body ELSE body

\* ToString, applied by parseFloat to its argument.
ToString(v) ==
    CASE v.kind = "string"    -> v.s
      [] v.kind = "undefined" -> <<"u", "n", "d", "e", "f", "i", "n", "e", "d">>
      [] v.kind = "null"      -> <<"n", "u", "l", "l">>
      [] v.kind = "nan"       -> <<"N", "a", "N">>
      [] v.kind = "infinity"  ->
            IF v.m < 0 THEN <<"-">> \o InfinityChars ELSE InfinityChars
      [] v.kind = "number"    -> NumberToString(v)

SkipWhiteSpace(s) == Drop(s, LeadSpaces(s))

SignOf(t) == IF t # <<>> /\ t[1] = "-" THEN -1 ELSE 1

\* t without its sign, if it has one.
Unsigned(t) == IF t # <<>> /\ t[1] \in {"+", "-"} THEN Drop(t, 1) ELSE t

IntDigits(r) == SubSeq(r, 1, LeadDigits(r))

AfterInt(r) == Drop(r, LeadDigits(r))

HasDot(r) == AfterInt(r) # <<>> /\ AfterInt(r)[1] = "."

FracDigits(r) == IF HasDot(r) THEN IntDigits(Drop(AfterInt(r), 1)) ELSE <<>>

AfterFrac(r) == IF HasDot(r) THEN AfterInt(Drop(AfterInt(r), 1)) ELSE AfterInt(r)

\* The value of the exponent part p begins with: e or E, an optional sign and
\* digits; 0 when p begins with no exponent part.
Exponent(p) ==
    IF p # <<>> /\ p[1] \in {"e", "E"} /\ IntDigits(Unsigned(Drop(p, 1))) # <<>>
    THEN SignOf(Drop(p, 1)) * DigitsValue(IntDigits(Unsigned(Drop(p, 1))))
    ELSE 0

\* The longest prefix of r that is digits, digits.digits, digits. or .digits
\* with an optional exponent, as a number; NaN when there is none.
DecimalPrefix(sign, r) ==
    IF IntDigits(r) = <<>> /\ FracDigits(r) = <<>> THEN NaN
    ELSE ToDouble(sign, DigitsValue(IntDigits(r) \o FracDigits(r)),
                  Exponent(AfterFrac(r)) - Len(FracDigits(r)))

\* The longest prefix of t that is a StrDecimalLiteral, as a number.
StrDecimalPrefix(t) ==
    IF StartsWith(Unsigned(t), InfinityChars) THEN Inf(SignOf(t))
    ELSE DecimalPrefix(SignOf(t), Unsigned(t))

\* The global parseFloat: leading white space is skipped, then the longest
\* prefix that is a StrDecimalLiteral is converted; whatever follows it is
\* ignored; NaN when there is no such prefix.
parseFloat(value) == StrDecimalPrefix(SkipWhiteSpace(ToString(value)))

isNaN(v) == v.kind = "nan"

\* parseNumeric answering 0 where the code answers null.
parseNumeric_zero(value) ==
    LET num == parseFloat(value) IN IF isNaN(num) THEN Num(0, 0) ELSE num

\* const parseNumeric = (value) => { ... }
parseNumeric(value) ==
    LET num == parseFloat(value) IN IF isNaN(num) THEN Null ELSE num

(* ------------------------- requests and the table ---------------------- *)

TextFields ==
    {"bilty_sl_no", "lr_no", "bill_no", "bill_date", "truck_no", "destination",
     "pump_name", "payment_officer", "damage_if_any"}

NumFields == {"weight", "freight", "diesel", "total_adv", "balance", "margin"}

Fields == TextFields \cup NumFields

\* !x
Falsy(v) ==
    \/ v.kind \in {"undefined", "null", "nan"}
    \/ v.kind = "number" /\ v.m = 0
    \/ v.kind = "string" /\ v.s = <<>>

\* req.body destructured: a field the body lacks is undefined.
Body(given) == [f \in Fields |-> IF f \in DOMAIN given THEN given[f] ELSE Undefined]

W125 == Str(<<"1", "2", ".", "5">>)

\* bilty_sl_no and a numeric weight, every other field left out.
MinimalA == Body([bilty_sl_no |-> Str(<<"A">>), weight |-> W125])

\* Every field given; the decimal fields as text, some of it not numeric.
FullB ==
    Body([bilty_sl_no |-> Str(<<"B">>), weight |-> Str(<<"7", "a", "b", "c">>),
          lr_no |-> Str(<<"L">>), bill_no |-> Str(<<"N">>),
          bill_date |-> Str(<<"D">>), truck_no |-> Str(<<"T">>),
          destination |-> Str(<<"X">>), pump_name |-> Str(<<"P">>),
          payment_officer |-> Str(<<"O">>), damage_if_any |-> Str(<<>>),
          freight |-> Str(<<"3", ".", "5">>), diesel |-> Str(<<>>),
          total_adv |-> Str(<<"x">>), balance |-> Null,
          margin |-> Str(<<"2">>)])

NonNumericWeightA ==
    Body([bilty_sl_no |-> Str(<<"A">>), weight |-> Str(<<"a", "b", "c">>)])

NoSlNo == Body([weight |-> W125])

EmptyWeightB ==
    Body([bilty_sl_no |-> Str(<<"B">>), weight |-> Str(<<>>), lr_no |-> Str(<<"L">>)])

ZeroWeightA == Body([bilty_sl_no |-> Str(<<"A">>), weight |-> Num(0, 0)])

EmptyBody == Body(<<>>)

\* The request bodies given to POST /api/bilty.
CreateBodies ==
    {MinimalA, FullB, NonNumericWeightA, NoSlNo, EmptyWeightB, ZeroWeightA, EmptyBody}

\* The request bodies given to PUT /api/bilty/:id.
UpdateBodies == {MinimalA, FullB, EmptyBody}

\* The :id of the path.
Ids == 1..MaxId

\* The statements in flight at once (the pool's connections in use).
Slots == {1, 2}

NoValues == [f \in Fields |-> Undefined]

\* A statement in flight: the request it serves. Its parameters $1..$15 are
\* CreateValues(body) or UpdateValues(body), $16 (or $1 of DELETE) is id.
Stmt(op, body, id) == [op |-> op, body |-> body, id |-> id]

NoStmt == Stmt("none", NoValues, 0)

Row(id, data) == [id |-> id, data |-> data]

Result(code, column, rs, newRows, newSeq) ==
    [code |-> code, column |-> column, rows |-> rs, rowCount |-> Len(rs),
     table |-> newRows, seq |-> newSeq]

\* A query parameter as the driver sends it: undefined and null are SQL NULL.
PrepareValue(v) == IF v.kind \in {"undefined", "null"} THEN Null ELSE v

\* The columns of bilty_data under a not-null constraint.
NotNullColumns == {"bilty_sl_no", "weight"}

\* Column order of the table, for the column a 23502 names.
NullColumn(data) == IF data["bilty_sl_no"] = Null THEN "bilty_sl_no" ELSE "weight"

NotNullViolation(data) == \E f \in NotNullColumns : data[f] = Null

\* The uniqueness constraint on bilty_sl_no, against the rows in others.
UniqueViolation(data, others) ==
    \E r \in others : r.data["bilty_sl_no"] = data["bilty_sl_no"]

\* nextval of the id sequence.
NextId(s) == s + 1

\* INSERT INTO bilty_data (...) VALUES ($1..$15) RETURNING *
\* The id default is taken from the sequence before the constraints are
\* checked, so a rejected insert uses up an id.
ExecInsert(table, s, values) ==
    LET data == [f \in Fields |-> PrepareValue(values[f])]
        row  == Row(NextId(s), data)
    IN  IF NotNullViolation(data)
            THEN Result("23502", NullColumn(data), <<>>, table, NextId(s))
        ELSE IF UniqueViolation(data, table)
            THEN Result("23505", "", <<>>, table, NextId(s))
        ELSE Result("", "", <<row>>, table \cup {row}, NextId(s))

\* UPDATE ... SET with the id moved to another row's.
UpdateRow_moveId(r, values) ==
    Row((r.id % MaxId) + 1, [f \in Fields |-> PrepareValue(values[f])])

\* UPDATE bilty_data SET <the fifteen columns> = $1..$15: the row r rewritten.
UpdateRow(r, values) == Row(r.id, [f \in Fields |-> PrepareValue(values[f])])

\* UPDATE bilty_data SET ... WHERE id = $16 RETURNING *
ExecUpdate(table, s, values, id) ==
    LET hit == {r \in table : r.id = id}
    IN  IF hit = {} THEN Result("", "", <<>>, table, s)
        ELSE LET old == CHOOSE r \in hit : TRUE
                 new == UpdateRow(old, values)
             IN  IF NotNullViolation(new.data)
                     THEN Result("23502", NullColumn(new.data), <<>>, table, s)
                 ELSE IF UniqueViolation(new.data, table \ {old})
                     THEN Result("23505", "", <<>>, table, s)
                 ELSE Result("", "", <<new>>, (table \ {old}) \cup {new}, s)

\* DELETE FROM bilty_data WHERE id = $1 RETURNING id
ExecDelete(table, s, id) ==
    LET hit == {r \in table : r.id = id}
    IN  IF hit = {} THEN Result("", "", <<>>, table, s)
        ELSE Result("", "", <<CHOOSE r \in hit : TRUE>>, table \ hit, s)

RECURSIVE OrderByIdAsc(_)
OrderByIdAsc(table) ==
    IF table = {} THEN <<>>
    ELSE LET lo == CHOOSE r \in table : \A q \in table : q.id >= r.id
         IN  <<lo>> \o OrderByIdAsc(table \ {lo})

RECURSIVE OrderByIdDesc(_)
OrderByIdDesc(table) ==
    IF table = {} THEN <<>>
    ELSE LET hi == CHOOSE r \in table : \A q \in table : q.id <= r.id
         IN  <<hi>> \o OrderByIdDesc(table \ {hi})

\* SELECT * FROM bilty_data ORDER BY id (ascending, the default).
ExecSelect_asc(table, s) == Result("", "", OrderByIdAsc(table), table, s)

\* SELECT * FROM bilty_data ORDER BY id DESC
ExecSelect(table, s) == Result("", "", OrderByIdDesc(table), table, s)

(* ------------------------------ handlers ------------------------------- *)
(* resp is the response the latest step sent, NoResp when it sent none.    *)

Resp(op, status, req, id, out, error, column) ==
    [op |-> op, status |-> status, req |-> req, id |-> id, out |-> out,
     error |-> error, column |-> column]

NoResp == Resp("none", 0, NoValues, 0, <<>>, "", "")

\* if (!bilty_sl_no) only.
MissingRequired_slOnly(body) == Falsy(body["bilty_sl_no"])

\* if (!bilty_sl_no || !weight)
MissingRequired(body) == Falsy(body["bilty_sl_no"]) \/ Falsy(body["weight"])

\* const values = [...] of the POST handler.
CreateValues(body) ==
    [f \in Fields |-> IF f \in NumFields THEN parseNumeric(body[f]) ELSE body[f]]

\* The PUT handler's values with margin passed as received.
UpdateValues_rawMargin(body) ==
    [f \in Fields |->
        IF f \in NumFields \ {"margin"} THEN parseNumeric(body[f]) ELSE body[f]]

\* const values = [..., id] of the PUT handler ($1..$15).
UpdateValues(body) ==
    [f \in Fields |-> IF f \in NumFields THEN parseNumeric(body[f]) ELSE body[f]]

\* The POST handler without the 23505 branch.
CreateRespond_no409(body, result) ==
    IF result.code = ""
        THEN Resp("create", 201, body, 0, <<result.rows[1]>>, "", "")
    ELSE IF result.code = "23502"
        THEN Resp("create", 400, body, 0, <<>>,
                  "Missing required data for column", result.column)
    ELSE Resp("create", 500, body, 0, <<>>, "Server error", "")

\* The POST handler answering with res.json alone.
CreateRespond_200(body, result) ==
    IF result.code = ""
        THEN Resp("create", 200, body, 0, <<result.rows[1]>>, "", "")
    ELSE IF result.code = "23505"
        THEN Resp("create", 409, body, 0, <<>>, "Bilty SL No. already exists", "")
    ELSE IF result.code = "23502"
        THEN Resp("create", 400, body, 0, <<>>,
                  "Missing required data for column", result.column)
    ELSE Resp("create", 500, body, 0, <<>>, "Server error", "")

\* The POST handler after await pool.query: the 201, or the catch block.
CreateRespond(body, result) ==
    IF result.code = ""
        THEN Resp("create", 201, body, 0, <<result.rows[1]>>, "", "")
    ELSE IF result.code = "23505"
        THEN Resp("create", 409, body, 0, <<>>, "Bilty SL No. already exists", "")
    ELSE IF result.code = "23502"
        THEN Resp("create", 400, body, 0, <<>>,
                  "Missing required data for column", result.column)
    ELSE Resp("create", 500, body, 0, <<>>, "Server error", "")

\* The PUT handler without the rows.length check: res.json(undefined).
UpdateRespond_noCheck(id, body, result) ==
    IF result.code # ""
        THEN Resp("update", 500, body, id, <<>>, "Server error", "")
    ELSE Resp("update", 200, body, id, result.rows, "", "")

\* The PUT handler after await pool.query.
UpdateRespond(id, body, result) ==
    IF result.code # ""
        THEN Resp("update", 500, body, id, <<>>, "Server error", "")
    ELSE IF Len(result.rows) = 0
        THEN Resp("update", 404, body, id, <<>>, "Bilty entry not found.", "")
    ELSE Resp("update", 200, body, id, <<result.rows[1]>>, "", "")

\* The DELETE handler without the rowCount check.
DeleteRespond_noCheck(id, result) ==
    IF result.code # ""
        THEN Resp("delete", 500, NoValues, id, <<>>, "Server error", "")
    ELSE Resp("delete", 204, NoValues, id, <<>>, "", "")

\* The DELETE handler after await pool.query.
DeleteRespond(id, result) ==
    IF result.code # ""
        THEN Resp("delete", 500, NoValues, id, <<>>, "Server error", "")
    ELSE IF result.rowCount = 0
        THEN Resp("delete", 404, NoValues, id, <<>>, "Bilty entry not found.", "")
    ELSE Resp("delete", 204, NoValues, id, <<>>, "", "")

\* The GET handler after await pool.query.
ListRespond(result) ==
    IF result.code # ""
        THEN Resp("list", 500, NoValues, 0, <<>>, "Server error", "")
    ELSE Resp("list", 200, NoValues, 0, result.rows, "", "")

(* ------------------------------- history ------------------------------- *)
(* deleted, fresh and race record what has happened; no handler reads them.*)

NoRace == [on |-> FALSE, slots |-> {}, n |-> 0, ok |-> TRUE, got |-> {}]

StoredSlNos == {r.data["bilty_sl_no"] : r \in rows}

\* A finite number, as the numeric columns take it.
IsFinite(v) == v.kind = "number"

\* Two INSERTs in flight form a race of the kind C7 is about: distinct
\* bilty_sl_no values no stored row has, and weights that are numbers.
Racing(a, b) ==
    /\ a.op = "insert" /\ b.op = "insert"
    /\ a.body["bilty_sl_no"] # b.body["bilty_sl_no"]
    /\ a.body["bilty_sl_no"] \notin StoredSlNos
    /\ b.body["bilty_sl_no"] \notin StoredSlNos
    /\ IsFinite(parseNumeric(a.body["weight"]))
    /\ IsFinite(parseNumeric(b.body["weight"]))

(* ------------------------------- actions ------------------------------- *)

FreeSlots == {k \in Slots : inflight[k] = NoStmt}

FirstFree == CHOOSE k \in FreeSlots : \A j \in FreeSlots : k <= j

PendingInserts == Cardinality({k \in Slots : inflight[k].op = "insert"})

\* pool.query(query, values) up to the await: the statement is in flight,
\* and the step sends no response.
Issue(stmt) ==
    /\ FreeSlots # {}
    /\ resp' = NoResp
    /\ inflight' = [inflight EXCEPT ![FirstFree] = stmt]
    /\ race' = IF stmt.op = "select" THEN race
               ELSE IF \E k \in Slots \ {FirstFree} : Racing(stmt, inflight[k])
                    THEN [NoRace EXCEPT !.on = TRUE, !.slots = Slots]
               ELSE NoRace

Settle(k, result, response) ==
    /\ rows' = result.table
    /\ seq' = result.seq
    /\ resp' = response
    /\ inflight' = [inflight EXCEPT ![k] = NoStmt]

\* app.post('/api/bilty'), to the 400 or to the await.
Create(body) ==
    IF MissingRequired(body)
    THEN /\ resp' = Resp("create", 400, body, 0, <<>>,
                         "Bilty SL No. and Weight are required.", "")
         /\ UNCHANGED <<rows, seq, inflight, deleted, fresh, race, pnIn, pnOut>>
    ELSE /\ seq + PendingInserts < MaxId
         /\ Issue(Stmt("insert", body, 0))
         /\ UNCHANGED <<rows, seq, deleted, fresh, pnIn, pnOut>>

\* app.post('/api/bilty'), from the await on: the INSERT runs, the answer goes out.
CreateDone(k) ==
    /\ inflight[k].op = "insert"
    /\ LET result   == ExecInsert(rows, seq, CreateValues(inflight[k].body))
           response == CreateRespond(inflight[k].body, result)
       IN  /\ Settle(k, result, response)
           /\ fresh' = IF result.rowCount > 0 THEN {result.rows[1]} ELSE fresh
           /\ race' = IF race.on /\ k \in race.slots
                      THEN [race EXCEPT !.slots = @ \ {k},
                                        !.n = @ + 1,
                                        !.ok = @ /\ response.status = 201,
                                        !.got = @ \cup {response.out[i] : i \in 1..Len(response.out)}]
                      ELSE race
    /\ UNCHANGED <<deleted, pnIn, pnOut>>

\* app.put('/api/bilty/:id'), to the await.
Update(id, body) ==
    /\ Issue(Stmt("update", body, id))
    /\ UNCHANGED <<rows, seq, deleted, fresh, pnIn, pnOut>>

\* app.put('/api/bilty/:id'), from the await on.
UpdateDone(k) ==
    /\ inflight[k].op = "update"
    /\ LET result == ExecUpdate(rows, seq, UpdateValues(inflight[k].body), inflight[k].id)
       IN  /\ Settle(k, result, UpdateRespond(inflight[k].id, inflight[k].body, result))
           /\ fresh' = IF result.rowCount > 0 THEN {} ELSE fresh
    /\ UNCHANGED <<deleted, race, pnIn, pnOut>>

\* app.delete('/api/bilty/:id'), to the await.
Delete(id) ==
    /\ Issue(Stmt("delete", NoValues, id))
    /\ UNCHANGED <<rows, seq, deleted, fresh, pnIn, pnOut>>

\* app.delete('/api/bilty/:id'), from the await on.
DeleteDone(k) ==
    /\ inflight[k].op = "delete"
    /\ LET result   == ExecDelete(rows, seq, inflight[k].id)
           response == DeleteRespond(inflight[k].id, result)
       IN  /\ Settle(k, result, response)
           /\ fresh' = IF result.rowCount > 0 THEN {} ELSE fresh
           /\ deleted' = IF response.status = 204
                         THEN deleted \cup {inflight[k].id} ELSE deleted
    /\ UNCHANGED <<race, pnIn, pnOut>>

\* app.get('/api/bilty'), to the await.
List ==
    /\ Issue(Stmt("select", NoValues, 0))
    /\ UNCHANGED <<rows, seq, deleted, fresh, pnIn, pnOut>>

\* app.get('/api/bilty'), from the await on.
ListDone(k) ==
    /\ inflight[k].op = "select"
    /\ Settle(k, ExecSelect(rows, seq), ListRespond(ExecSelect(rows, seq)))
    /\ UNCHANGED <<deleted, fresh, race, pnIn, pnOut>>

\* The table is empty and its sequence unused; nothing is in flight.
Init ==
    /\ rows = {}
    /\ seq = 0
    /\ inflight = [k \in Slots |-> NoStmt]
    /\ resp = NoResp
    /\ deleted = {}
    /\ fresh = {}
    /\ race = NoRace
    /\ pnIn = Undefined
    /\ pnOut = Undefined

Next ==
    \/ \E body \in CreateBodies : Create(body)
    \/ \E k \in Slots : CreateDone(k)
    \/ \E id \in Ids, body \in UpdateBodies : Update(id, body)
    \/ \E k \in Slots : UpdateDone(k)
    \/ \E id \in Ids : Delete(id)
    \/ \E k \in Slots : DeleteDone(k)
    \/ List
    \/ \E k \in Slots : ListDone(k)

Spec == Init /\ [][Next]_vars

(* ------------------- parseNumeric on its own inputs -------------------- *)

Alphabet == {"0", "1", ".", "-", "e", "a", " "}

StringsUpTo(n) == UNION {[1..k -> Alphabet] : k \in 0..n}

Samples ==
    { InfinityChars, <<"-">> \o InfinityChars,
      <<"1", "2", ".", "5">>, <<"1", "2", "a", "b", "c">>, <<"a", "b", "c">>,
      <<"9", "e", "3", "0", "8">>, <<"1", "e", "3", "0", "8">>,
      <<"+", ".", "5", "e", "-", "1">>, <<"0", "x", "1", "0">> }

NumInputs ==
    {Str(s) : s \in StringsUpTo(MaxLen) \cup Samples}
        \cup {Undefined, Null, Num(0, 0), Num(125, -1), Num(-7, 0), Num(5, -3), Num(3, 2)}

\* parseNumeric(value) is called; pnOut is undefined until it returns.
Coerce ==
    /\ pnOut = Undefined
    /\ pnOut' = parseNumeric(pnIn)
    /\ UNCHANGED <<rows, seq, inflight, resp, deleted, fresh, race, pnIn>>

InitNum ==
    /\ rows = {}
    /\ seq = 0
    /\ inflight = [k \in Slots |-> NoStmt]
    /\ resp = NoResp
    /\ deleted = {}
    /\ fresh = {}
    /\ race = NoRace
    /\ pnIn \in NumInputs
    /\ pnOut = Undefined

NextNum == Coerce

SpecNum == InitNum /\ [][NextNum]_vars

(* ------------------------ vocabulary of the claims --------------------- *)

Range(q) == {q[i] : i \in 1..Len(q)}

AllDigits(s) == \A i \in 1..Len(s) : IsDigit(s[i])

\* e or E, an optional sign, one digit or more.
ExponentPart(p) ==
    /\ Len(p) >= 2
    /\ p[1] \in {"e", "E"}
    /\ IF p[2] \in {"+", "-"} THEN Len(p) >= 3 /\ AllDigits(Drop(p, 2))
       ELSE AllDigits(Drop(p, 1))

\* u is digits, digits.digits, digits. or .digits, with an optional exponent.
UnsignedDecimal(u) ==
    \E i \in 0..Len(u), dot \in 0..1, j \in 0..Len(u), x \in 0..Len(u) :
        /\ i + dot + j + x = Len(u)
        /\ i + j >= 1
        /\ AllDigits(SubSeq(u, 1, i))
        /\ dot = 1 => u[i + 1] = "."
        /\ dot = 0 => j = 0
        /\ AllDigits(SubSeq(u, i + dot + 1, i + dot + j))
        /\ x = 0 \/ ExponentPart(Drop(u, i + dot + j))

\* s is, as a whole, a signed decimal literal (Infinity is not one).
DecimalLiteral(s) ==
    \/ UnsignedDecimal(s)
    \/ s # <<>> /\ s[1] \in {"+", "-"} /\ UnsignedDecimal(Drop(s, 1))

Reverse(s) == [i \in 1..Len(s) |-> s[Len(s) + 1 - i]]

Trim(s) ==
    SubSeq(SkipWhiteSpace(s), 1, Len(SkipWhiteSpace(s)) - LeadSpaces(Reverse(s)))

\* The input is a number or a decimal string.
IsNumericInput(v) ==
    \/ v.kind = "number"
    \/ v.kind = "string" /\ DecimalLiteral(Trim(v.s))

\* Text no prefix of which, leading white space aside, is a number.
NoLeadingNumber(v) ==
    /\ v.kind = "string"
    /\ \A n \in 1..Len(v.s) : ~DecimalLiteral(SubSeq(SkipWhiteSpace(v.s), 1, n))
    /\ ~StartsWith(Unsigned(SkipWhiteSpace(v.s)), InfinityChars)

\* Missing or empty, of a request field.
Missing(v) == v.kind \in {"undefined", "null"} \/ v = Str(<<>>)

\* What a request body is stored as: the six decimal fields coerced,
\* what is left out or null stored as NULL.
Coerced(req) ==
    [f \in Fields |->
        LET v == IF f \in NumFields THEN parseNumeric(req[f]) ELSE req[f]
        IN  IF v.kind \in {"undefined", "null"} THEN Null ELSE v]

Hit(id) == {r \in rows : r.id = id}

(* -------------------------------- claims ------------------------------- *)

\* C1 (as stated): every Create whose bilty_sl_no equals a stored record's
\* is answered 409 and leaves the stored records as they were.
C1_AsStated ==
    [][resp'.op = "create" /\ resp'.req["bilty_sl_no"] \in StoredSlNos
          => resp'.status = 409 /\ rows' = rows]_vars

\* C1 (amended): a Create whose bilty_sl_no equals a stored record's leaves
\* the stored records as they were; it is answered 409 when its weight is
\* present, non-empty and text with a number at its head (or a non-zero
\* number).
C1_Duplicate ==
    [][resp'.op = "create" /\ resp'.req["bilty_sl_no"] \in StoredSlNos
          => /\ rows' = rows
             /\ resp'.status \in {400, 409}
             /\ (/\ ~Missing(resp'.req["weight"])
                 /\ resp'.req["weight"] # Num(0, 0)
                 /\ ~NoLeadingNumber(resp'.req["weight"]))
                    => resp'.status = 409]_vars

C1_Witness ==
    /\ resp.op = "create" /\ resp.status = 409
    /\ resp.req["bilty_sl_no"] \in StoredSlNos

\* C2: parseNumeric returns a finite number or null; numbers and decimal
\* strings map to a number, everything else (text that only begins with
\* digits, 'Infinity') to null.
C2_FiniteOrNull ==
    pnOut # Undefined =>
        /\ pnOut.kind \in {"number", "null"}
        /\ IsNumericInput(pnIn) => pnOut.kind = "number"
        /\ ~IsNumericInput(pnIn) => pnOut = Null

\* The step answers a Create with a non-empty bilty_sl_no no stored record
\* has and a non-empty weight that is text with no number at its head.
C3_Case ==
    /\ resp'.op = "create"
    /\ ~Missing(resp'.req["bilty_sl_no"])
    /\ resp'.req["bilty_sl_no"] \notin StoredSlNos
    /\ ~Missing(resp'.req["weight"])
    /\ NoLeadingNumber(resp'.req["weight"])

\* C3 (as stated): a Create with an unused non-empty bilty_sl_no and a
\* non-empty weight that is not numeric is answered 201 and stored with a
\* null weight.
C3_AsStated ==
    [][C3_Case =>
          /\ resp'.status = 201
          /\ \E r \in rows' : /\ r.data["bilty_sl_no"] = resp'.req["bilty_sl_no"]
                              /\ r.data["weight"] = Null]_vars

\* C3 (amended): such a Create passes the required-field check, its INSERT
\* is issued, and the not-null constraint on weight rejects it: the answer is
\* 400 naming the column weight, and no row is stored.
C3_NonNumericWeight ==
    [][C3_Case =>
          /\ resp'.status = 400
          /\ resp'.column = "weight"
          /\ rows' = rows
          /\ \E k \in Slots : inflight[k].op = "insert" /\ inflight'[k] = NoStmt]_vars

C3_Witness ==
    /\ resp.op = "create" /\ resp.status = 400 /\ resp.column = "weight"
    /\ NoLeadingNumber(resp.req["weight"])

\* C4 (as stated): every Update of a stored id is answered 200 with the
\* request's field values (decimal fields coerced), the stored record is
\* that record, and every omitted field is null.
C4_AsStated ==
    [][resp'.op = "update" /\ Hit(resp'.id) # {}
          => /\ resp'.status = 200
             /\ resp'.out = <<Row(resp'.id, Coerced(resp'.req))>>
             /\ resp'.out[1] \in rows'
             /\ \A f \in Fields :
                    resp'.req[f] = Undefined => resp'.out[1].data[f] = Null]_vars

\* The store takes the Update of the row with this id: bilty_sl_no is given
\* and no other row's, and weight coerces to a number.
Acceptable(id, req) ==
    /\ ~(req["bilty_sl_no"].kind \in {"undefined", "null"})
    /\ \A r \in rows : r.id # id => r.data["bilty_sl_no"] # req["bilty_sl_no"]
    /\ Coerced(req)["weight"] # Null

\* C4 (amended): an Update of a stored id whose bilty_sl_no is given and is
\* no other record's, and whose weight coerces to a number, is answered 200
\* with the request's field values (decimal fields coerced), the stored
\* record is that record, and every omitted field is null.
C4_FullReplace ==
    [][resp'.op = "update" /\ Hit(resp'.id) # {} /\ Acceptable(resp'.id, resp'.req)
          => /\ resp'.status = 200
             /\ resp'.out = <<Row(resp'.id, Coerced(resp'.req))>>
             /\ resp'.out[1] \in rows'
             /\ Cardinality(rows') = Cardinality(rows)
             /\ \A f \in Fields :
                    resp'.req[f] = Undefined => resp'.out[1].data[f] = Null]_vars

C4_Witness ==
    /\ resp.op = "update" /\ resp.status = 200
    /\ resp.req["lr_no"] = Undefined
    /\ resp.out[1].data["lr_no"] = Null
    /\ resp.out[1] \in rows

\* C5: a Create with bilty_sl_no or weight missing or empty is answered 400;
\* no statement is issued and the table and its sequence are untouched.
C5_MissingRequired ==
    [][resp'.op = "create"
          /\ (Missing(resp'.req["bilty_sl_no"]) \/ Missing(resp'.req["weight"]))
          => /\ resp'.status = 400
             /\ rows' = rows /\ seq' = seq /\ inflight' = inflight]_vars

C5_Witness ==
    /\ resp.op = "create" /\ resp.status = 400
    /\ Missing(resp.req["weight"]) /\ ~Missing(resp.req["bilty_sl_no"])
    /\ rows # {}

C6_Unique ==
    \A r, q \in rows :
        (r.id = q.id \/ r.data["bilty_sl_no"] = q.data["bilty_sl_no"]) => r = q

C6_IdKept ==
    resp'.op = "update"
        => /\ {r.id : r \in rows'} = {r.id : r \in rows}
           /\ resp'.status = 200 => resp'.out[1].id = resp'.id

\* C6: no two stored records share an id or a bilty_sl_no, and an Update
\* leaves the ids of the stored records as they were.
C6_UniqueKeys == []C6_Unique /\ [][C6_IdKept]_vars

C6_Witness ==
    /\ Cardinality(rows) = 2
    /\ resp.op = "update" /\ resp.status = 200

\* C7: two Creates in flight together, with distinct unused bilty_sl_no and
\* numeric weights, are both answered 201 in whichever order they run, and a
\* List answered after both holds both created records.
C7_ConcurrentCreates ==
    /\ race.on => race.ok
    /\ race.on /\ race.n = 2 =>
          /\ Cardinality(race.got) = 2
          /\ race.got \subseteq rows
          /\ resp.op = "list" => resp.status = 200 /\ race.got \subseteq Range(resp.out)

C7_Witness == race.on /\ race.n = 2 /\ resp.op = "list"

\* C8: an Update of an id no stored record has is answered 404 and leaves
\* the stored records as they were.
C8_UpdateNotFound ==
    [][resp'.op = "update" /\ Hit(resp'.id) = {}
          => resp'.status = 404 /\ rows' = rows]_vars

C8_Witness ==
    /\ resp.op = "update" /\ resp.status = 404
    /\ resp.req = FullB /\ rows # {}

C9_Gone ==
    /\ \A r \in rows : r.id \notin deleted
    /\ resp.op = "list" => \A r \in Range(resp.out) : r.id \notin deleted

C9_Again == resp'.op = "delete" /\ resp'.id \in deleted => resp'.status = 404

\* C9: once a Delete of an id is answered 204, no List answered later holds
\* a record with that id, and a later Delete of the id is answered 404.
C9_DeleteIsFinal == []C9_Gone /\ [][C9_Again]_vars

C9_Witness ==
    /\ resp.op = "delete" /\ resp.status = 404 /\ resp.id \in deleted

\* C10: List answers with all stored records in strictly descending id
\* order, and right after a Create answered 201 its record comes first.
C10_ListOrder ==
    resp.op = "list" =>
        /\ resp.status = 200
        /\ Range(resp.out) = rows
        /\ \A i \in 1..(Len(resp.out) - 1) : resp.out[i].id > resp.out[i + 1].id
        /\ fresh # {} => resp.out # <<>> /\ resp.out[1] \in fresh

C10_Witness ==
    /\ resp.op = "list" /\ fresh # {}
    /\ deleted # {}

====
